---- MODULE Spec2Model ----
(***************************************************************************)
(* Model of the profiler of tech-paws/debug-systems (src/src/profiler.rs): *)
(* the process-wide ProfileState behind the PROFILE_STATE mutex, the       *)
(* scope-bound and explicitly-managed timed blocks, the frame lifecycle    *)
(* and the snapshot aggregator.                                            *)
(*                                                                         *)
(* Durations are natural numbers of nanoseconds.  The clock is not part of  *)
(* the model: what timer.elapsed() returns when a block is closed or a     *)
(* frame ends is an input of the step, and an Instant is kept only as the  *)
(* name of the call that read it.  Strings are TLA+ strings, so that the   *)
(* key the aggregator builds by concatenation is computed as the code      *)
(* computes it.                                                            *)
(* A percent (f32 in the code) is kept as an exact fraction num/den or as  *)
(* NaN; the f64 -> f32 rounding is monotone, so the order of two percents  *)
(* of one snapshot is the order of their fractions.                        *)
(***************************************************************************)
EXTENDS Integers, Sequences, FiniteSets

(* Program constants. *)
PERFORMANCE_COUNTER_LOG_SIZE == 120
PERFORMANCE_COUNTER_STATE_SIZE == 60
DefaultSnapshotInterval == 3

(* Bounds of the model. *)
MaxElapsed == 1       \* timer.elapsed() returns 0 .. MaxElapsed nanoseconds
MaxBlockId == 2       \* push_timed_block is called while last_timed_block_id < MaxBlockId
MaxBlocks == 2        \* at most MaxBlocks timed blocks are opened
MaxSnapshots == 1     \* at most MaxSnapshots snapshots are taken

(* Threads of the process; any of them may use any public operation. *)
Threads == {"host", "worker"}
NoThread == "none"

(* The thread of the frame loop: the one that takes the guard to call
   frame_start, frame_end and update_snapshot_interval. *)
Host == "host"

(* Region identities used by the instrumented code: (name, file_name, line). *)
Draw == [name |-> "draw", file_name |-> "a.rs", line |-> 11]

Idents ==
    { Draw,
      [name |-> "draw", file_name |-> "a.rs1", line |-> 1],
      [name |-> "tick", file_name |-> "a.rs",  line |-> 1] }

(* The regions each thread runs through: the frame loop all of them, the
   other thread the one it shares with the frame loop. *)
IdentsOf(t) == IF t = Host THEN Idents ELSE {Draw}

(* Arguments passed to update_snapshot_interval. *)
NewIntervals == {0, 1, PERFORMANCE_COUNTER_STATE_SIZE + 1}

(* The values timer.elapsed() returns for a block. *)
Durations == 0 .. MaxElapsed

(* The values frame_timer.elapsed() returns in frame_end: a frame is never
   shorter than the clock's resolution. *)
FrameDurations == 1 .. MaxElapsed

SlotIdx == 0 .. (PERFORMANCE_COUNTER_STATE_SIZE - 1)
LogIdx == 0 .. (PERFORMANCE_COUNTER_LOG_SIZE - 1)

VARIABLES
    snapshot_interval,            \* ProfileState.snapshot_interval
    frame_timer,                  \* ProfileState.frame_timer (an Instant)
    frame_elapsed,                \* ProfileState.frame_elapsed
    frame_counter,                \* ProfileState.frame_counter
    snapshot_counter,             \* ProfileState.snapshot_counter
    performance_counter_states,   \* the Frame Sample Slots: SlotIdx -> Seq(record)
    performance_counter_log,      \* the statistics log: LogIdx -> Seq(statistics record)
    timed_blocks,                 \* the manual-block table: id -> TimedBlock
    last_timed_block_id,          \* the id allocator
    lock,                         \* the thread that holds PROFILE_STATE, or NoThread
    poisoned,                     \* the poison flag of PROFILE_STATE
    pc,                           \* where each thread is
    scoped,                       \* the live scope-bound TimedBlock of each thread (<<>> if none)
    failed_in,                    \* the call in which each thread panicked or blocked ("" if none)
    closes_in_frame,              \* history: per identity, the closes merged since the last frame_end
    blocks_opened,                \* history: the number of timed blocks opened so far
    issued_ids,                   \* history: the ids push_timed_block returned, in order
    snapshots_taken,              \* history: the number of calls of take_snapshot
    command_results,              \* history: what the calls of execute_command returned, in order
    commands,                     \* DebugState.commands: history, registry and index
    debug_state_lock,             \* the DEBUG_STATE mutex: the thread that holds it for good, and its poison flag
    registered_commands,          \* history: the commands passed to register_command, in order
    closed_ids                    \* history: the ids drop_timed_block_by_id found and removed, in order

profile == <<snapshot_interval, frame_timer, frame_elapsed, frame_counter, snapshot_counter,
             performance_counter_states, performance_counter_log, timed_blocks,
             last_timed_block_id>>

vars == <<snapshot_interval, frame_timer, frame_elapsed, frame_counter, snapshot_counter,
          performance_counter_states, performance_counter_log, timed_blocks,
          last_timed_block_id, lock, poisoned, pc, scoped, failed_in,
          closes_in_frame, blocks_opened, issued_ids, snapshots_taken, command_results, commands,
                   debug_state_lock, registered_commands, closed_ids>>

-----------------------------------------------------------------------------
(* Pure helpers. *)

RECURSIVE SumSeq(_)
SumSeq(s) == IF s = <<>> THEN 0 ELSE Head(s) + SumSeq(Tail(s))

MaxOf(S) == CHOOSE m \in S : \A k \in S : k <= m

Digit(d) == <<"0", "1", "2", "3", "4", "5", "6", "7", "8", "9">>[d + 1]

(* u32::to_string: the decimal digits, no padding. *)
RECURSIVE U32ToString(_)
U32ToString(n) == IF n < 10 THEN Digit(n) ELSE U32ToString(n \div 10) \o Digit(n % 10)

(* format!("{:?}", thread_id) *)
ThreadIdDebug(t) == "ThreadId(" \o t \o ")"

(* A u32 is kept at its width, as its two 16-bit halves [hi, lo]: the
   integers of the model checker are 32-bit signed ones. *)
U16Modulus == 65536

(* The u32 of a number below 2^31. *)
U32(n) == [hi |-> n \div U16Modulus, lo |-> n % U16Modulus]

(* u32::MAX *)
U32Max == [hi |-> U16Modulus - 1, lo |-> U16Modulus - 1]

(* The number a u32 below 2^31 stands for. *)
U32Nat(x) == x.hi * U16Modulus + x.lo

(* a + b on u32: the sum at the width of the type (what a build without
   overflow checks stores), and whether the addition overflows (a build with
   overflow checks panics). *)
U32Add(a, b) ==
    LET lo == a.lo + b.lo
        hi == a.hi + b.hi + (lo \div U16Modulus)
    IN  [hi |-> hi % U16Modulus, lo |-> lo % U16Modulus]

U32Overflows(a, b) ==
    a.hi + b.hi + ((a.lo + b.lo) \div U16Modulus) >= U16Modulus

(* n / (x as u128) for a number n below 2^16 and a u32 x that is not 0. *)
DivByU32(n, x) == IF x.hi > 0 \/ x.lo = 0 THEN 0 ELSE n \div x.lo

SameIdent(r, b) == r.name = b.name /\ r.file_name = b.file_name /\ r.line = b.line

IdentOf(r) == [name |-> r.name, file_name |-> r.file_name, line |-> r.line]

(* TimedBlock::new and the block built by push_timed_block.  The timer field
   (Instant::now()) is read only by timer.elapsed(), an input of the close. *)
TimedBlock(ident, manual, t) ==
    [manual_drop |-> manual, thread_id |-> t, name |-> ident.name,
     file_name |-> ident.file_name, line |-> ident.line]

ClocsDebugRecord(b, t, elapsed, hits) ==
    [name |-> b.name, file_name |-> b.file_name, line |-> b.line,
     elapsed |-> elapsed, hits |-> hits, thread_id |-> t]

(* A merge that does not look for the record of the identity. *)
MergedRecordsAlwaysPush(records, b, t, timer_elapsed) ==
    Append(records, ClocsDebugRecord(b, t, timer_elapsed, U32(1)))

(* drop_timed_block: hits after the loop has passed the first k records; it
   starts at 1 and every record of the identity of b adds its hits. *)
RECURSIVE MergedHits(_, _, _)
MergedHits(records, b, k) ==
    IF k = 0 THEN U32(1)
    ELSE IF SameIdent(records[k], b)
         THEN U32Add(MergedHits(records, b, k - 1), records[k].hits)
         ELSE MergedHits(records, b, k - 1)

(* hits += c.hits overflows for some record of the slot. *)
MergeOverflows(records, b) ==
    \E k \in 1 .. Len(records) :
        /\ SameIdent(records[k], b)
        /\ U32Overflows(MergedHits(records, b, k - 1), records[k].hits)

(* drop_timed_block: the records of the current slot after thread t closes b,
   whose timer reads timer_elapsed. *)
MergedRecords(records, b, t, timer_elapsed) ==
    LET matching == {i \in 1 .. Len(records) : SameIdent(records[i], b)}
        hits == MergedHits(records, b, Len(records))
        elapsed == timer_elapsed + SumSeq([i \in 1 .. Len(records) |->
                              IF i \in matching THEN records[i].elapsed ELSE 0])
        rec == ClocsDebugRecord(b, t, elapsed, hits)
    IN  IF matching # {}
        THEN [records EXCEPT ![MaxOf(matching)] = rec]
        ELSE Append(records, rec)

drop_timed_block(b, t, timer_elapsed) ==
    [performance_counter_states EXCEPT
        ![frame_counter] = MergedRecords(@, b, t, timer_elapsed)]

RECURSIVE AllRecords(_, _)
AllRecords(states, i) ==
    IF i = PERFORMANCE_COUNTER_STATE_SIZE THEN <<>>
    ELSE states[i] \o AllRecords(states, i + 1)


(* The percent of a statistics record. *)
NaN == [nan |-> TRUE, num |-> 0, den |-> 0]

Percent(sum_elapsed, total_elapsed) ==
    IF total_elapsed = 0 THEN NaN
    ELSE [nan |-> FALSE, num |-> sum_elapsed * 100, den |-> total_elapsed]

(* b.percent.partial_cmp(&a.percent) is Some(Less or Equal): a >= b. *)
PercentGeq(a, b) == ~a.nan /\ ~b.nan /\ a.num * b.den >= b.num * a.den

(* sum_hits is a u32 as the hits of a slot record are; hits counts the
   scanned records, which stay far below the width of its u32. *)
PerformanceCounterStatisticsRecordDefault ==
    [name |-> "", file_name |-> "", line |-> 0, sum_elapsed |-> 0, sum_hits |-> U32(0),
     sum_hits_over_elapsed |-> 0, hits |-> 0, percent |-> Percent(0, 1), thread_id |-> ""]

(* The key of the working map of take_snapshot. *)
StatisticsKey(r) == r.name \o r.file_name \o U32ToString(r.line)

(* One iteration of the inner loop of take_snapshot. *)
AddRecord(statistics, r) ==
    LET key == StatisticsKey(r)
        old == IF key \in DOMAIN statistics THEN statistics[key]
               ELSE PerformanceCounterStatisticsRecordDefault
        new == [old EXCEPT !.name = r.name,
                           !.file_name = r.file_name,
                           !.line = r.line,
                           !.sum_elapsed = @ + r.elapsed,
                           !.sum_hits = U32Add(@, r.hits),
                           !.sum_hits_over_elapsed = @ + DivByU32(r.elapsed, r.hits),
                           !.hits = @ + 1,
                           !.thread_id = ThreadIdDebug(r.thread_id)]
    IN  [k \in (DOMAIN statistics) \cup {key} |-> IF k = key THEN new ELSE statistics[k]]

RECURSIVE FoldRecords(_, _)
FoldRecords(recs, statistics) ==
    IF recs = <<>> THEN statistics
    ELSE FoldRecords(Tail(recs), AddRecord(statistics, Head(recs)))

(* The working map of take_snapshot after the scan of every slot. *)
Statistics(states) == FoldRecords(AllRecords(states, 0), <<>>)

(* take_snapshot divides by the hits of a record that are 0. *)
DividesByZero(states) ==
    LET records == AllRecords(states, 0)
    IN  \E k \in 1 .. Len(records) : records[k].hits = U32(0)

(* element.sum_hits += record.hits overflows for some scanned record. *)
SumHitsOverflows(states) ==
    LET records == AllRecords(states, 0)
    IN  \E k \in 1 .. Len(records) :
            LET statistics == FoldRecords(SubSeq(records, 1, k - 1), <<>>)
                key == StatisticsKey(records[k])
            IN  /\ key \in DOMAIN statistics
                /\ U32Overflows(statistics[key].sum_hits, records[k].hits)

(* A total taken over the wrong field: the per-record averages. *)
TotalOfAverages(statistics) ==
    LET RECURSIVE Sum(_)
        Sum(K) == IF K = {} THEN 0
                  ELSE LET k == CHOOSE x \in K : TRUE
                       IN  statistics[k].sum_hits_over_elapsed + Sum(K \ {k})
    IN  Sum(DOMAIN statistics)

TotalElapsed(statistics) ==
    LET RECURSIVE Sum(_)
        Sum(K) == IF K = {} THEN 0
                  ELSE LET k == CHOOSE x \in K : TRUE
                       IN  statistics[k].sum_elapsed + Sum(K \ {k})
    IN  Sum(DOMAIN statistics)

(* The values of the working map with their percent set. *)
StatisticsValues(states) ==
    LET statistics == Statistics(states)
        total == TotalElapsed(statistics)
    IN  {[statistics[k] EXCEPT !.percent = Percent(statistics[k].sum_elapsed, total)] :
            k \in DOMAIN statistics}

(* records.sort_by(|a, b| b.percent.partial_cmp(&a.percent).unwrap()) panics
   when it compares a NaN, which it does as soon as there are two records. *)
SortPanics(values) ==
    Cardinality(values) >= 2 /\ \E v \in values : v.percent.nan

(* The records collected from the map and left in the order of its
   iteration. *)
UnsortedRecords(values) ==
    LET n == Cardinality(values)
    IN  {s \in [1 .. n -> values] : \A i, j \in 1 .. n : i # j => s[i] # s[j]}

(* The results of the sort: HashMap::values() yields the records in an
   arbitrary order and the sort is stable, so records of equal percent come
   out in any order. *)
SortedRecords(values) ==
    LET n == Cardinality(values)
    IN  {s \in [1 .. n -> values] :
            /\ \A i, j \in 1 .. n : i # j => s[i] # s[j]
            /\ \A i \in 1 .. n - 1 : PercentGeq(s[i].percent, s[i + 1].percent)}

-----------------------------------------------------------------------------
(* CommandsState::default(): no history, no registry entry, an empty index. *)
CommandsStateDefault == [history |-> <<>>, registry |-> <<>>, index |-> <<>>]

(* The initial state: ProfileState::default() behind a fresh mutex, and
   DebugState::default(). *)
Init ==
    /\ snapshot_interval = DefaultSnapshotInterval
    /\ frame_timer = "default"
    /\ frame_elapsed = 0
    /\ frame_counter = 0
    /\ snapshot_counter = 0
    /\ performance_counter_states = [i \in SlotIdx |-> <<>>]
    /\ performance_counter_log = [i \in LogIdx |-> <<>>]
    /\ timed_blocks = <<>>
    /\ last_timed_block_id = 0
    /\ lock = NoThread
    /\ poisoned = FALSE
    /\ pc = [t \in Threads |-> "run"]
    /\ scoped = [t \in Threads |-> <<>>]
    /\ failed_in = [t \in Threads |-> ""]
    /\ closes_in_frame = [id \in Idents |-> [hits |-> 0, elapsed |-> 0]]
    /\ blocks_opened = 0
    /\ issued_ids = <<>>
    /\ snapshots_taken = 0
    /\ command_results = <<>>
    /\ commands = CommandsStateDefault
    /\ debug_state_lock = [holder |-> NoThread, poisoned |-> FALSE]
    /\ registered_commands = <<>>
    /\ closed_ids = <<>>

(* The region of the frame loop alone. *)
Tick == [name |-> "tick", file_name |-> "a.rs", line |-> 1]

(* The snapshot take_snapshot writes for one frame in which one block of Tick
   was closed by the frame loop after 1 ns. *)
TickSnapshot ==
    CHOOSE records \in SortedRecords(StatisticsValues(
               [i \in SlotIdx |-> IF i = 0 THEN <<ClocsDebugRecord(Tick, Host, 1, U32(1))>>
                                  ELSE <<>>])) : TRUE

(* States late in a run, next to the ends of both arrays.  The frame loop
   called update_snapshot_interval(1) and frame_end until the log ring was
   about to wrap (snapshot_counter = 119), then update_snapshot_interval(60)
   and 58 times frame_end; no block is open.  Either no block was closed so
   far, or the ring wrapped once before and entry 0 got the snapshot of a
   frame in which Tick was closed.  The histories count from this state on. *)
InitNearLimits ==
    /\ snapshot_interval = PERFORMANCE_COUNTER_STATE_SIZE
    /\ frame_timer = "frame_start"
    /\ frame_elapsed \in FrameDurations
    /\ frame_counter = PERFORMANCE_COUNTER_STATE_SIZE - 2
    /\ snapshot_counter = PERFORMANCE_COUNTER_LOG_SIZE - 1
    /\ performance_counter_states = [i \in SlotIdx |-> <<>>]
    /\ performance_counter_log \in
          {[i \in LogIdx |-> <<>>],
           [i \in LogIdx |-> IF i = 0 THEN TickSnapshot ELSE <<>>]}
    /\ timed_blocks = <<>>
    /\ last_timed_block_id = 0
    /\ lock = NoThread
    /\ poisoned = FALSE
    /\ pc = [t \in Threads |-> "run"]
    /\ scoped = [t \in Threads |-> <<>>]
    /\ failed_in = [t \in Threads |-> ""]
    /\ closes_in_frame = [id \in Idents |-> [hits |-> 0, elapsed |-> 0]]
    /\ blocks_opened = 0
    /\ issued_ids = <<>>
    /\ snapshots_taken = 0
    /\ command_results = <<>>
    /\ commands = CommandsStateDefault
    /\ debug_state_lock = [holder |-> NoThread, poisoned |-> FALSE]
    /\ registered_commands = <<>>
    /\ closed_ids = <<>>

(* The hits of a record that has taken nearly as many closes as a u32 counts. *)
ManyHits == {U32Max, [U32Max EXCEPT !.lo = @ - 1]}

(* States of a run in which no frame has ended yet (a host that has not
   reached its first frame_end, or that only uses timed blocks) and blocks
   of Draw were closed 2^32 - 1 or 2^32 - 2 times, on a clock that read 0 for
   nearly all of them: slot 0 holds their record.  No block is open, and the
   histories count from this state on. *)
InitManyHits ==
    /\ snapshot_interval = DefaultSnapshotInterval
    /\ frame_timer = "default"
    /\ frame_elapsed = 0
    /\ frame_counter = 0
    /\ snapshot_counter = 0
    /\ \E t \in Threads : \E elapsed \in Durations : \E hits \in ManyHits :
          performance_counter_states =
              [i \in SlotIdx |-> IF i = 0 THEN <<ClocsDebugRecord(Draw, t, elapsed, hits)>>
                                 ELSE <<>>]
    /\ performance_counter_log = [i \in LogIdx |-> <<>>]
    /\ timed_blocks = <<>>
    /\ last_timed_block_id = 0
    /\ lock = NoThread
    /\ poisoned = FALSE
    /\ pc = [t \in Threads |-> "run"]
    /\ scoped = [t \in Threads |-> <<>>]
    /\ failed_in = [t \in Threads |-> ""]
    /\ closes_in_frame = [id \in Idents |-> [hits |-> 0, elapsed |-> 0]]
    /\ blocks_opened = 0
    /\ issued_ids = <<>>
    /\ snapshots_taken = 0
    /\ command_results = <<>>
    /\ commands = CommandsStateDefault
    /\ debug_state_lock = [holder |-> NoThread, poisoned |-> FALSE]
    /\ registered_commands = <<>>
    /\ closed_ids = <<>>

-----------------------------------------------------------------------------
(* Panics and the mutex. *)

(* Thread t panics and unwinds.  The guard it holds, if any, is dropped while
   panicking, which poisons the mutex.  If a scope-bound block of t is still
   live, unwinding runs its destructor, which locks PROFILE_STATE again: it
   either panics a second time (the lock is poisoned, or held by t itself),
   which aborts the process, or, when t still holds the guard, blocks. *)
Unwind(t, live, call) ==
    /\ failed_in' = [failed_in EXCEPT ![t] = call]
    /\ IF ~live
       THEN /\ pc' = [pc EXCEPT ![t] = "panicked"]
            /\ lock' = IF lock = t THEN NoThread ELSE lock
            /\ poisoned' = (poisoned \/ lock = t)
       ELSE \/ /\ pc' = [u \in Threads |-> "aborted"]
               /\ UNCHANGED <<lock, poisoned>>
            \/ /\ lock = t
               /\ pc' = [pc EXCEPT ![t] = "deadlock"]
               /\ UNCHANGED <<lock, poisoned>>

(* Mutex::lock by the thread that already holds the mutex: the call never
   returns; it blocks forever or panics. *)
SelfLock(t, live, call) ==
    \/ /\ pc' = [pc EXCEPT ![t] = "deadlock"]
       /\ failed_in' = [failed_in EXCEPT ![t] = call]
       /\ UNCHANGED <<lock, poisoned>>
    \/ Unwind(t, live, call)

(* get_profile_state() by thread t does not return a guard: the lock is held
   by t itself, or it is poisoned and expect() panics. *)
LockFails(t) == lock = t \/ poisoned

LockFailure(t, live, call) ==
    IF lock = t THEN SelfLock(t, live, call) ELSE Unwind(t, live, call)

(* A lock that is handed out while another thread holds it. *)
CanLockWhileHeld(t) == TRUE

(* get_profile_state() by thread t does not wait: no other thread holds the
   lock. *)
CanLock(t) == lock \in {NoThread, t}

Running(t) == pc[t] \in {"run", "guard"}

(* The frame loop takes the guard: let mut state = get_profile_state(); *)
get_profile_state(t) ==
    /\ t = Host
    /\ pc[t] = "run"
    /\ CanLock(t)
    /\ IF LockFails(t)
       THEN LockFailure(t, scoped[t] # <<>>, "get_profile_state")
       ELSE /\ lock' = t
            /\ pc' = [pc EXCEPT ![t] = "guard"]
            /\ UNCHANGED <<poisoned, failed_in>>
    /\ UNCHANGED <<profile, scoped, closes_in_frame, blocks_opened, issued_ids, snapshots_taken, command_results, commands,
                   debug_state_lock, registered_commands, closed_ids>>

(* The frame loop drops its guard. *)
DropGuard(t) ==
    /\ pc[t] = "guard"
    /\ lock' = NoThread
    /\ pc' = [pc EXCEPT ![t] = "run"]
    /\ UNCHANGED <<profile, poisoned, scoped, failed_in, closes_in_frame, blocks_opened, issued_ids, snapshots_taken, command_results, commands,
                   debug_state_lock, registered_commands, closed_ids>>

(* push_timed_block, drop_timed_block_by_id or TimedBlock::drop returns and
   its guard goes out of scope. *)
Return(t) ==
    /\ pc[t] = "in_op"
    /\ lock' = NoThread
    /\ pc' = [pc EXCEPT ![t] = "run"]
    /\ UNCHANGED <<profile, poisoned, scoped, failed_in, closes_in_frame, blocks_opened, issued_ids, snapshots_taken, command_results, commands,
                   debug_state_lock, registered_commands, closed_ids>>

-----------------------------------------------------------------------------
(* Timed blocks. *)

(* Thread t panics inside drop_timed_block, under the guard the close took:
   hits += c.hits overflows in a build with overflow checks.  The guard is
   dropped while panicking. *)
MergePanics(t, call) ==
    /\ pc' = [pc EXCEPT ![t] = "panicked"]
    /\ failed_in' = [failed_in EXCEPT ![t] = call]
    /\ poisoned' = TRUE
    /\ UNCHANGED <<profile, lock, closes_in_frame>>

(* The history of the frame after a close of b that measured timer_elapsed. *)
Counted(b, timer_elapsed) ==
    [closes_in_frame EXCEPT ![IdentOf(b)] =
        [hits |-> @.hits + 1, elapsed |-> @.elapsed + timer_elapsed]]

(* let _b = TimedBlock::new(name, file_name, line); *)
TimedBlockNew(t, ident) ==
    /\ Running(t)
    /\ scoped[t] = <<>>
    /\ blocks_opened < MaxBlocks
    /\ blocks_opened' = blocks_opened + 1
    /\ scoped' = [scoped EXCEPT ![t] = <<TimedBlock(ident, FALSE, t)>>]
    /\ UNCHANGED <<profile, lock, poisoned, pc, failed_in, closes_in_frame,
                   issued_ids, snapshots_taken, command_results, commands,
                   debug_state_lock, registered_commands, closed_ids>>

(* The scope-bound block of t is dropped: impl Drop for TimedBlock. *)
TimedBlockDrop(t) ==
    /\ Running(t)
    /\ scoped[t] # <<>>
    /\ CanLock(t)
    /\ scoped' = [scoped EXCEPT ![t] = <<>>]
    /\ IF LockFails(t)
       THEN /\ LockFailure(t, FALSE, "TimedBlock::drop")
            /\ UNCHANGED <<profile, closes_in_frame>>
       ELSE \/ /\ \E timer_elapsed \in Durations :
                     /\ performance_counter_states' =
                           drop_timed_block(scoped[t][1], t, timer_elapsed)
                     /\ closes_in_frame' = Counted(scoped[t][1], timer_elapsed)
               /\ lock' = t
               /\ pc' = [pc EXCEPT ![t] = "in_op"]
               /\ UNCHANGED <<snapshot_interval, frame_timer, frame_elapsed, frame_counter,
                              snapshot_counter, performance_counter_log, timed_blocks,
                              last_timed_block_id, poisoned, failed_in>>
            \/ /\ MergeOverflows(performance_counter_states[frame_counter], scoped[t][1])
               /\ MergePanics(t, "TimedBlock::drop")
    /\ UNCHANGED <<blocks_opened, issued_ids, snapshots_taken, command_results, commands,
                   debug_state_lock, registered_commands, closed_ids>>

(* A push that stores the block under last_timed_block_id and leaves the
   counter as it is. *)
push_timed_block_same_id(t, ident) ==
    /\ Running(t)
    /\ last_timed_block_id < MaxBlockId
    /\ blocks_opened < MaxBlocks
    /\ CanLock(t)
    /\ IF LockFails(t)
       THEN /\ LockFailure(t, scoped[t] # <<>>, "push_timed_block")
            /\ UNCHANGED <<profile, blocks_opened, issued_ids>>
       ELSE /\ blocks_opened' = blocks_opened + 1
            /\ issued_ids' = Append(issued_ids, last_timed_block_id)
            /\ timed_blocks' =
                  [k \in (DOMAIN timed_blocks) \cup {last_timed_block_id} |->
                      IF k = last_timed_block_id THEN TimedBlock(ident, TRUE, t)
                      ELSE timed_blocks[k]]
            /\ lock' = t
            /\ pc' = [pc EXCEPT ![t] = "in_op"]
            /\ UNCHANGED <<snapshot_interval, frame_timer, frame_elapsed, frame_counter,
                           snapshot_counter, performance_counter_states,
                           performance_counter_log, last_timed_block_id, poisoned,
                           failed_in>>
    /\ UNCHANGED <<scoped, closes_in_frame, snapshots_taken, command_results, commands,
                   debug_state_lock, registered_commands, closed_ids>>

(* An allocator that hands out the smallest id that is not in the table. *)
push_timed_block_smallest_free(t, ident) ==
    /\ Running(t)
    /\ last_timed_block_id < MaxBlockId
    /\ blocks_opened < MaxBlocks
    /\ CanLock(t)
    /\ IF LockFails(t)
       THEN /\ LockFailure(t, scoped[t] # <<>>, "push_timed_block")
            /\ UNCHANGED <<profile, blocks_opened, issued_ids, snapshots_taken,
                           command_results, commands,
                   debug_state_lock, registered_commands, closed_ids>>
       ELSE LET id == CHOOSE k \in 0 .. MaxBlockId :
                          /\ k \notin DOMAIN timed_blocks
                          /\ \A j \in 0 .. (k - 1) : j \in DOMAIN timed_blocks
            IN  /\ last_timed_block_id' = last_timed_block_id + 1
                /\ blocks_opened' = blocks_opened + 1
                /\ issued_ids' = Append(issued_ids, id)
                /\ timed_blocks' =
                      [k \in (DOMAIN timed_blocks) \cup {id} |->
                          IF k = id THEN TimedBlock(ident, TRUE, t) ELSE timed_blocks[k]]
                /\ lock' = t
                /\ pc' = [pc EXCEPT ![t] = "in_op"]
                /\ UNCHANGED <<snapshot_interval, frame_timer, frame_elapsed,
                               frame_counter, snapshot_counter,
                               performance_counter_states, performance_counter_log,
                               poisoned, failed_in, snapshots_taken, command_results, commands,
                   debug_state_lock, registered_commands, closed_ids>>
    /\ UNCHANGED <<scoped, closes_in_frame>>

push_timed_block(t, ident) ==
    /\ Running(t)
    /\ last_timed_block_id < MaxBlockId
    /\ blocks_opened < MaxBlocks
    /\ CanLock(t)
    /\ IF LockFails(t)
       THEN /\ LockFailure(t, scoped[t] # <<>>, "push_timed_block")
            /\ UNCHANGED <<profile, blocks_opened, issued_ids, snapshots_taken, command_results, commands,
                   debug_state_lock, registered_commands, closed_ids>>
       ELSE /\ last_timed_block_id' = last_timed_block_id + 1
            /\ blocks_opened' = blocks_opened + 1
            /\ issued_ids' = Append(issued_ids, last_timed_block_id)
            /\ UNCHANGED <<snapshots_taken, command_results, commands,
                   debug_state_lock, registered_commands, closed_ids>>
            /\ timed_blocks' =
                  [k \in (DOMAIN timed_blocks) \cup {last_timed_block_id} |->
                      IF k = last_timed_block_id THEN TimedBlock(ident, TRUE, t)
                      ELSE timed_blocks[k]]
            /\ lock' = t
            /\ pc' = [pc EXCEPT ![t] = "in_op"]
            /\ UNCHANGED <<snapshot_interval, frame_timer, frame_elapsed, frame_counter,
                           snapshot_counter, performance_counter_states,
                           performance_counter_log, poisoned, failed_in>>
    /\ UNCHANGED <<scoped, closes_in_frame>>

(* A close by id that merges the block and leaves its id in the table. *)
drop_timed_block_by_id_keeping(t, id) ==
    /\ Running(t)
    /\ CanLock(t)
    /\ IF LockFails(t)
       THEN /\ LockFailure(t, scoped[t] # <<>>, "drop_timed_block_by_id")
            /\ UNCHANGED <<profile, closes_in_frame, closed_ids>>
       ELSE \/ /\ IF id \in DOMAIN timed_blocks
                  THEN /\ \E timer_elapsed \in Durations :
                             /\ performance_counter_states' =
                                   drop_timed_block(timed_blocks[id], t, timer_elapsed)
                             /\ closes_in_frame' = Counted(timed_blocks[id], timer_elapsed)
                       /\ closed_ids' = Append(closed_ids, id)
                  ELSE UNCHANGED <<performance_counter_states, closes_in_frame, closed_ids>>
               /\ lock' = t
               /\ pc' = [pc EXCEPT ![t] = "in_op"]
               /\ UNCHANGED <<snapshot_interval, frame_timer, frame_elapsed, frame_counter,
                              snapshot_counter, performance_counter_log, timed_blocks,
                              last_timed_block_id, poisoned, failed_in>>
            \/ /\ id \in DOMAIN timed_blocks
               /\ MergeOverflows(performance_counter_states[frame_counter], timed_blocks[id])
               /\ MergePanics(t, "drop_timed_block_by_id")
               /\ UNCHANGED closed_ids
    /\ UNCHANGED <<scoped, blocks_opened, issued_ids, snapshots_taken, command_results, commands,
                   debug_state_lock, registered_commands>>

drop_timed_block_by_id(t, id) ==
    /\ Running(t)
    /\ CanLock(t)
    /\ IF LockFails(t)
       THEN /\ LockFailure(t, scoped[t] # <<>>, "drop_timed_block_by_id")
            /\ UNCHANGED <<profile, closes_in_frame, closed_ids>>
       ELSE \/ /\ IF id \in DOMAIN timed_blocks
                  THEN /\ \E timer_elapsed \in Durations :
                             /\ performance_counter_states' =
                                   drop_timed_block(timed_blocks[id], t, timer_elapsed)
                             /\ closes_in_frame' = Counted(timed_blocks[id], timer_elapsed)
                       /\ timed_blocks' =
                             [k \in (DOMAIN timed_blocks) \ {id} |-> timed_blocks[k]]
                       /\ closed_ids' = Append(closed_ids, id)
                  ELSE UNCHANGED <<performance_counter_states, timed_blocks, closes_in_frame,
                                   closed_ids>>
               /\ lock' = t
               /\ pc' = [pc EXCEPT ![t] = "in_op"]
               /\ UNCHANGED <<snapshot_interval, frame_timer, frame_elapsed, frame_counter,
                              snapshot_counter, performance_counter_log,
                              last_timed_block_id, poisoned, failed_in>>
            \/ /\ id \in DOMAIN timed_blocks
               /\ MergeOverflows(performance_counter_states[frame_counter], timed_blocks[id])
               /\ MergePanics(t, "drop_timed_block_by_id")
               /\ UNCHANGED closed_ids
    /\ UNCHANGED <<scoped, blocks_opened, issued_ids, snapshots_taken, command_results, commands,
                   debug_state_lock, registered_commands>>

-----------------------------------------------------------------------------
(* The frame lifecycle; the caller passes the guard it holds. *)

frame_start(t) ==
    /\ pc[t] = "guard"
    /\ frame_timer' = "frame_start"
    /\ UNCHANGED <<snapshot_interval, frame_elapsed, frame_counter, snapshot_counter,
                   performance_counter_states, performance_counter_log, timed_blocks,
                   last_timed_block_id, lock, poisoned, pc, scoped, failed_in,
          closes_in_frame, blocks_opened, issued_ids, snapshots_taken, command_results, commands,
                   debug_state_lock, registered_commands, closed_ids>>

(* The snapshot_counter after the first lines of take_snapshot. *)
NextSnapshotCounter ==
    IF snapshot_counter + 1 >= PERFORMANCE_COUNTER_LOG_SIZE THEN 0 ELSE snapshot_counter + 1

(* A threshold test that lets one frame too many into an interval. *)
TakesSnapshotLate == frame_counter + 1 > snapshot_interval

(* frame_end reaches its threshold and calls take_snapshot. *)
TakesSnapshot == frame_counter + 1 >= snapshot_interval

frame_end(t) ==
    /\ pc[t] = "guard"
    /\ frame_elapsed' \in FrameDurations
    /\ closes_in_frame' = [id \in Idents |-> [hits |-> 0, elapsed |-> 0]]
    /\ IF TakesSnapshot
       THEN /\ snapshots_taken < MaxSnapshots
            /\ snapshots_taken' = snapshots_taken + 1
            /\ snapshot_counter' = NextSnapshotCounter
            /\ LET values == StatisticsValues(performance_counter_states)
                   panics == \/ DividesByZero(performance_counter_states)
                             \/ SortPanics(values)
               IN  \/ /\ panics \/ SumHitsOverflows(performance_counter_states)
                      /\ frame_counter' = frame_counter + 1
                      /\ Unwind(t, scoped[t] # <<>>, "take_snapshot")
                      /\ UNCHANGED <<performance_counter_states, performance_counter_log>>
                   \/ /\ ~panics
                      /\ \E records \in SortedRecords(values) :
                            performance_counter_log' =
                                [performance_counter_log EXCEPT
                                    ![NextSnapshotCounter] = records]
                      /\ frame_counter' = 0
                      /\ performance_counter_states' =
                            [i \in SlotIdx |-> IF i < snapshot_interval THEN <<>>
                                               ELSE performance_counter_states[i]]
                      /\ UNCHANGED <<lock, poisoned, pc, failed_in>>
       ELSE /\ frame_counter' = frame_counter + 1
            /\ UNCHANGED <<snapshot_counter, performance_counter_states,
                           performance_counter_log, lock, poisoned, pc, failed_in,
                           snapshots_taken>>
    /\ UNCHANGED <<snapshot_interval, frame_timer, timed_blocks, last_timed_block_id,
                   scoped, blocks_opened, issued_ids, command_results, commands,
                   debug_state_lock, registered_commands, closed_ids>>

(* An update that stores its argument without the capacity test. *)
update_snapshot_interval_unchecked(t, new_interval) ==
    /\ pc[t] = "guard"
    /\ snapshot_interval' = new_interval
    /\ UNCHANGED <<frame_timer, frame_elapsed, frame_counter, snapshot_counter,
                   performance_counter_states, performance_counter_log, timed_blocks,
                   last_timed_block_id, lock, poisoned, pc, scoped, failed_in,
                   closes_in_frame, blocks_opened, issued_ids, snapshots_taken,
                   command_results, commands,
                   debug_state_lock, registered_commands, closed_ids>>

update_snapshot_interval(t, new_interval) ==
    /\ pc[t] = "guard"
    /\ snapshot_interval' =
          IF new_interval <= PERFORMANCE_COUNTER_STATE_SIZE THEN new_interval
          ELSE snapshot_interval
    /\ UNCHANGED <<frame_timer, frame_elapsed, frame_counter, snapshot_counter,
                   performance_counter_states, performance_counter_log, timed_blocks,
                   last_timed_block_id, lock, poisoned, pc, scoped, failed_in,
          closes_in_frame, blocks_opened, issued_ids, snapshots_taken, command_results, commands,
                   debug_state_lock, registered_commands, closed_ids>>

-----------------------------------------------------------------------------
(* The command console (commands.rs, commands_registry.rs).  A string of the
   program is a sequence of its characters, so that the tokenizer's regular
   expression is applied to the text; a message is the sequence of the
   pieces it is formatted from. *)

MaxCommands == 2         \* execute_command is called while history holds fewer lines
MaxRegistrations == 2    \* register_command is called while registry holds fewer entries

Letters ==
    {"a", "b", "c", "d", "e", "f", "g", "h", "i", "j", "k", "l", "m", "n",
     "o", "p", "q", "r", "s", "t", "u", "v", "w", "x", "y", "z", "A", "B",
     "C", "D", "E", "F", "G", "H", "I", "J", "K", "L", "M", "N", "O", "P",
     "Q", "R", "S", "T", "U", "V", "W", "X", "Y", "Z"}

Digits == {"0", "1", "2", "3", "4", "5", "6", "7", "8", "9"}

(* [a-zA-Z_] and [a-zA-Z:0-9_-] *)
IdStart == Letters \cup {"_"}
IdRest == Letters \cup Digits \cup {":", "_", "-"}

DigitValue(c) == CHOOSE d \in 0 .. 9 : Digit(d) = c

(* str[from .. to - 1] *)
Slice(str, from, to) == [k \in 1 .. (to - from) |-> str[from + k - 1]]

(* The position after the longest run of characters of class that starts at
   position i of str. *)
RECURSIVE RunEnd(_, _, _)
RunEnd(str, i, class) ==
    IF i <= Len(str) /\ str[i] \in class THEN RunEnd(str, i + 1, class) ELSE i

StartsWith(str, i, word) ==
    /\ i + Len(word) - 1 <= Len(str)
    /\ Slice(str, i, i + Len(word)) = word

(* The four alternatives of the tokenizer's regular expression, in its order.
   Each gives the position after its match at position i, or 0. *)
MatchBool(str, i) ==
    IF StartsWith(str, i, <<"t", "r", "u", "e">>) THEN i + 4
    ELSE IF StartsWith(str, i, <<"f", "a", "l", "s", "e">>) THEN i + 5
    ELSE 0

MatchString(str, i) ==
    IF str[i] = "\"" /\ \E j \in (i + 1) .. Len(str) : str[j] = "\""
    THEN 1 + (CHOOSE j \in (i + 1) .. Len(str) :
                 /\ str[j] = "\""
                 /\ \A k \in (i + 1) .. (j - 1) : str[k] # "\"")
    ELSE 0

MatchId(str, i) ==
    IF str[i] \in IdStart /\ i + 1 <= Len(str) /\ str[i + 1] \in IdRest
    THEN RunEnd(str, i + 1, IdRest)
    ELSE 0

MatchNumber(str, i) ==
    IF str[i] \in Digits
    THEN LET int_end == RunEnd(str, i, Digits)
         IN  IF /\ int_end + 1 <= Len(str)
                /\ str[int_end] = "."
                /\ str[int_end + 1] \in Digits
             THEN RunEnd(str, int_end + 1, Digits)
             ELSE int_end
    ELSE 0

(* str.parse::<f64>() of a match of [0-9]+(\.[0-9]+)?: the integer part and
   the digits of the fraction. *)
RECURSIVE ParseDigits(_)
ParseDigits(ds) ==
    IF ds = <<>> THEN 0
    ELSE 10 * ParseDigits(Slice(ds, 1, Len(ds))) + DigitValue(ds[Len(ds)])

RECURSIVE StripZeros(_)
StripZeros(ds) ==
    IF ds # <<>> /\ ds[Len(ds)] = "0" THEN StripZeros(Slice(ds, 1, Len(ds))) ELSE ds

ParseNumber(text) ==
    LET int_end == RunEnd(text, 1, Digits)
    IN  [int  |-> ParseDigits(Slice(text, 1, int_end)),
         frac |-> IF int_end > Len(text) THEN <<>>
                  ELSE StripZeros(Slice(text, int_end + 1, Len(text) + 1))]

(* tokenize: the successive leftmost matches from position i on; characters
   no alternative matches are skipped. *)
RECURSIVE TokenizeFrom(_, _)
TokenizeFrom(str, i) ==
    IF i > Len(str) THEN <<>>
    ELSE IF MatchBool(str, i) # 0
         THEN <<[type |-> "Bool", bool |-> Slice(str, i, MatchBool(str, i)) = <<"t", "r", "u", "e">>]>>
              \o TokenizeFrom(str, MatchBool(str, i))
    ELSE IF MatchString(str, i) # 0
         THEN <<[type |-> "String", text |-> Slice(str, i + 1, MatchString(str, i) - 1)]>>
              \o TokenizeFrom(str, MatchString(str, i))
    ELSE IF MatchId(str, i) # 0
         THEN <<[type |-> "Id", text |-> Slice(str, i, MatchId(str, i))]>>
              \o TokenizeFrom(str, MatchId(str, i))
    ELSE IF MatchNumber(str, i) # 0
         THEN <<[type |-> "Number",
                 number |-> ParseNumber(Slice(str, i, MatchNumber(str, i)))]>>
              \o TokenizeFrom(str, MatchNumber(str, i))
    ELSE TokenizeFrom(str, i + 1)

tokenize(command) == TokenizeFrom(command, 1)

Ok == [ok |-> TRUE, err |-> <<>>]
Err(msg) == [ok |-> FALSE, err |-> msg]

(* parse_command: Ok(CommandRequest) is [ok |-> TRUE, command, arguments]. *)
parse_command(command) ==
    LET tokens == tokenize(command)
    IN  IF tokens = <<>> THEN Err(<<"Command can't be empty">>)
        ELSE IF tokens[1].type # "Id" THEN Err(<<"Parse error">>)
        ELSE IF \E k \in 2 .. Len(tokens) : tokens[k].type = "Id"
             THEN Err(<<"Parse error">>)
        ELSE [ok |-> TRUE, err |-> <<>>,
              command |-> tokens[1].text,
              arguments |-> [k \in 1 .. (Len(tokens) - 1) |-> tokens[k + 1]]]

(* require(cond, msg) *)
require(cond, msg) == IF cond THEN Ok ELSE Err(<<msg>>)

(* The executor registered by commands_registry::init.  The two lines that
   would lock PROFILE_STATE and call update_snapshot_interval are commented
   out in the source: the executor validates its arguments and returns. *)
set_snapshot_interval_command(arguments) ==
    IF ~require(Len(arguments) = 1, "bad arguments length").ok
    THEN require(Len(arguments) = 1, "bad arguments length")
    ELSE IF arguments[1].type # "Number" THEN Err(<<"Argument should be int">>)
    ELSE Ok

(* The executor the unit tests register: two numbers. *)
sum_command(arguments) ==
    IF ~require(Len(arguments) = 2, "bad arguments length").ok
    THEN require(Len(arguments) = 2, "bad arguments length")
    ELSE IF arguments[1].type # "Number" THEN Err(<<"first argument should be number">>)
    ELSE IF arguments[2].type # "Number" THEN Err(<<"second argument should be number">>)
    ELSE Ok

(* The call of a command's executor. *)
Execute(executor, arguments) ==
    CASE executor = "set_snapshot_interval_command" ->
             set_snapshot_interval_command(arguments)
      [] executor = "sum_command" -> sum_command(arguments)

(* format!("{}::{}", namespace, name) *)
CommandKey(namespace, name) == namespace \o <<":", ":">> \o name

Profile == <<"p", "r", "o", "f", "i", "l", "e">>
SetSnapshotInterval == <<"s", "e", "t", "_", "s", "n", "a", "p", "s", "h", "o", "t", "_", "i", "n", "t", "e", "r", "v", "a", "l">>

(* The Command built by commands_registry::init. *)
SetSnapshotIntervalCommand ==
    [namespace |-> Profile, name |-> SetSnapshotInterval,
     executor |-> "set_snapshot_interval_command"]

(* register_command: one more registry entry, and the index entry of the
   command's key inserted or replaced. *)
register_command(state, desc, command) ==
    LET key == CommandKey(command.namespace, command.name)
    IN  [state EXCEPT
            !.registry = Append(@, [namespace |-> command.namespace,
                                    name |-> command.name,
                                    args |-> "<arguments: int>",
                                    desc |-> desc]),
            !.index = [k \in (DOMAIN @) \cup {key} |->
                          IF k = key THEN command ELSE @[k]]]

(* execute_command_request *)
execute_command_request(state, request) ==
    IF request.command \in DOMAIN state.index
    THEN Execute(state.index[request.command].executor, request.arguments)
    ELSE Err(<<"Command '">> \o request.command \o <<"' not found">>)

(* What execute_command(command) returns in the current state. *)
ExecuteCommandResult(command) ==
    LET request == parse_command(command)
    IN  IF request.ok THEN execute_command_request(commands, request)
        ELSE request

Math == <<"m", "a", "t", "h">>
Sum == <<"s", "u", "m">>

(* The command lines typed into the console. *)
CommandLines ==
    { CommandKey(Profile, SetSnapshotInterval) \o <<" ", "5">>,
      CommandKey(Profile, SetSnapshotInterval) \o <<" ", "6", "0">>,
      CommandKey(Profile, SetSnapshotInterval) \o <<" ", "\"", "5", "\"">>,
      CommandKey(Profile, SetSnapshotInterval) \o <<" ", "t", "r", "u", "e">>,
      CommandKey(Profile, SetSnapshotInterval),
      CommandKey(Profile, SetSnapshotInterval) \o <<" ", "5", " ", "1", ".", "5", "0">>,
      <<"p", "r", "o", "f", "i", "l", "e", ":", ":", "r", "e", "s", "e", "t", " ", "5">>,
      <<"5", " ", "p", "r", "o", "f", "i", "l", "e">>,
      CommandKey(Math, Sum) \o <<" ", "2", " ", "2">>,
      CommandKey(Math, Sum) \o <<" ", "2", " ", "\"", "2", "\"">>,
      CommandKey(Math, Sum) \o <<" ", "2">>,
      <<>> }

(* The Command the unit tests register, and one a host registers over the
   key of the command of commands_registry::init. *)
MathSumCommand == [namespace |-> Math, name |-> Sum, executor |-> "sum_command"]

SetSnapshotIntervalOverride ==
    [namespace |-> Profile, name |-> SetSnapshotInterval, executor |-> "sum_command"]

RegisteredCommands == {SetSnapshotIntervalCommand, MathSumCommand, SetSnapshotIntervalOverride}

(* DEBUG_STATE.lock().expect("failed to get debug state") by a thread that
   does not hold the mutex: it waits while another thread holds it, and
   panics when it is poisoned. *)
CanLockDebugState == debug_state_lock.holder = NoThread

(* A caller locks DEBUG_STATE and calls register_command(debug_state, desc,
   command); call names the caller. *)
Register(t, desc, command, call) ==
    /\ pc[t] = "run"
    /\ Len(commands.registry) < MaxRegistrations
    /\ CanLockDebugState
    /\ IF debug_state_lock.poisoned
       THEN /\ Unwind(t, scoped[t] # <<>>, call)
            /\ UNCHANGED <<commands, registered_commands>>
       ELSE /\ commands' = register_command(commands, desc, command)
            /\ registered_commands' = Append(registered_commands, command)
            /\ UNCHANGED <<lock, poisoned, pc, failed_in>>
    /\ UNCHANGED <<profile, scoped, closes_in_frame, blocks_opened, issued_ids,
                   snapshots_taken, command_results, debug_state_lock, closed_ids>>

(* Module::init: DEBUG_STATE is locked and commands_registry::init registers
   the command. *)
init(t) ==
    Register(t, "Update snapshot interval", SetSnapshotIntervalCommand, "Module::init")

(* A host registers a command of its own, as the unit tests do. *)
RegisterCommand(t, command) == Register(t, "Test commands", command, "register_command")

(* execute_command(command): DEBUG_STATE is locked, the line is pushed to
   the history, parsed and dispatched.  No executor touches ProfileState. *)
execute_command(t, command) ==
    /\ pc[t] = "run"
    /\ Len(commands.history) < MaxCommands
    /\ CanLockDebugState
    /\ IF debug_state_lock.poisoned
       THEN /\ Unwind(t, scoped[t] # <<>>, "execute_command")
            /\ UNCHANGED <<commands, command_results>>
       ELSE /\ commands' = [commands EXCEPT !.history = Append(@, command)]
            /\ command_results' = Append(command_results, ExecuteCommandResult(command))
            /\ UNCHANGED <<lock, poisoned, pc, failed_in>>
    /\ UNCHANGED <<profile, scoped, closes_in_frame, blocks_opened, issued_ids,
                   snapshots_taken, debug_state_lock, registered_commands, closed_ids>>

(* Module::step: DEBUG_STATE is locked, then PROFILE_STATE, both with
   expect(); the guards are dropped when step returns, and nothing of either
   state is written.  When the second lock fails the thread holds the guard
   of DEBUG_STATE: a panic poisons DEBUG_STATE, a lock that never returns
   keeps it held. *)
step(t) ==
    /\ Running(t)
    /\ CanLockDebugState
    /\ CanLock(t)
    /\ IF debug_state_lock.poisoned
       THEN /\ Unwind(t, scoped[t] # <<>>, "Module::step")
            /\ UNCHANGED debug_state_lock
       ELSE IF LockFails(t)
       THEN \/ /\ Unwind(t, scoped[t] # <<>>, "Module::step")
               /\ debug_state_lock' = [debug_state_lock EXCEPT !.poisoned = TRUE]
            \/ /\ lock = t
               /\ pc' = [pc EXCEPT ![t] = "deadlock"]
               /\ failed_in' = [failed_in EXCEPT ![t] = "Module::step"]
               /\ debug_state_lock' = [debug_state_lock EXCEPT !.holder = t]
               /\ UNCHANGED <<lock, poisoned>>
       ELSE UNCHANGED <<lock, poisoned, pc, failed_in, debug_state_lock>>
    /\ UNCHANGED <<profile, scoped, closes_in_frame, blocks_opened, issued_ids,
                   snapshots_taken, command_results, commands, registered_commands,
                   closed_ids>>

-----------------------------------------------------------------------------
Next ==
    \/ \E t \in Threads : get_profile_state(t)
    \/ \E t \in Threads : DropGuard(t)
    \/ \E t \in Threads : Return(t)
    \/ \E t \in Threads : \E ident \in IdentsOf(t) : TimedBlockNew(t, ident)
    \/ \E t \in Threads : TimedBlockDrop(t)
    \/ \E t \in Threads : \E ident \in IdentsOf(t) : push_timed_block(t, ident)
    \/ \E t \in Threads : \E id \in 0 .. MaxBlockId : drop_timed_block_by_id(t, id)
    \/ \E t \in Threads : frame_start(t)
    \/ \E t \in Threads : frame_end(t)
    \/ \E t \in Threads : \E n \in NewIntervals : update_snapshot_interval(t, n)

Spec == Init /\ [][Next]_vars

(* Arguments passed to update_snapshot_interval late in a run: the capacity
   itself as well. *)
NearLimitIntervals == NewIntervals \cup {PERFORMANCE_COUNTER_STATE_SIZE}

(* The same operations late in a run, which is followed until its last
   snapshot. *)
NextNearLimits ==
    \/ \E t \in Threads : get_profile_state(t)
    \/ \E t \in Threads : DropGuard(t)
    \/ \E t \in Threads : Return(t)
    \/ \E t \in Threads : \E ident \in IdentsOf(t) : TimedBlockNew(t, ident)
    \/ \E t \in Threads : TimedBlockDrop(t)
    \/ \E t \in Threads : \E ident \in IdentsOf(t) : push_timed_block(t, ident)
    \/ \E t \in Threads : \E id \in 0 .. MaxBlockId : drop_timed_block_by_id(t, id)
    \/ \E t \in Threads : frame_start(t)
    \/ \E t \in Threads : snapshots_taken < MaxSnapshots /\ frame_end(t)
    \/ \E t \in Threads : \E n \in NearLimitIntervals : update_snapshot_interval(t, n)

SpecNearLimits == InitNearLimits /\ [][NextNearLimits]_vars

(* The console, next to a frame loop that changes the interval itself. *)
NextCommands ==
    \/ \E t \in Threads : init(t)
    \/ \E t \in Threads : \E command \in RegisteredCommands : RegisterCommand(t, command)
    \/ \E t \in Threads : \E command \in CommandLines : execute_command(t, command)
    \/ \E t \in Threads : step(t)
    \/ \E t \in Threads : get_profile_state(t)
    \/ \E t \in Threads : DropGuard(t)
    \/ \E t \in Threads : \E n \in NewIntervals : update_snapshot_interval(t, n)

SpecCommands == Init /\ [][NextCommands]_vars

(* The frame loop and the scope-bound blocks of both threads. *)
NextFrames ==
    \/ \E t \in Threads : get_profile_state(t)
    \/ \E t \in Threads : DropGuard(t)
    \/ \E t \in Threads : Return(t)
    \/ \E t \in Threads : \E ident \in IdentsOf(t) : TimedBlockNew(t, ident)
    \/ \E t \in Threads : TimedBlockDrop(t)
    \/ \E t \in Threads : frame_end(t)
    \/ \E t \in Threads : \E n \in NewIntervals : update_snapshot_interval(t, n)

(* frame_end can be called: the host holds the guard (and the run has not
   reached its last snapshot). *)
FrameEndEnabled ==
    \E t \in Threads :
        pc[t] = "guard" /\ (TakesSnapshot => snapshots_taken < MaxSnapshots)

(* The host keeps taking the guard and calling frame_end: strong fairness of
   both, that of frame_end written with its enabling condition.  A thread
   that is inside push_timed_block, drop_timed_block_by_id or
   TimedBlock::drop returns from it. *)
HostKeepsCallingFrameEnd ==
    /\ SF_vars(\E t \in Threads : get_profile_state(t))
    /\ ([]<><<\E t \in Threads : frame_end(t)>>_vars \/ <>[]~FrameEndEnabled)
    /\ WF_vars(\E t \in Threads : Return(t))

SpecFrames == Init /\ [][NextFrames]_vars /\ HostKeepsCallingFrameEnd

(* The same operations on a record that is close to the end of its u32. *)
SpecManyHits == InitManyHits /\ [][NextFrames]_vars

TypeOK ==
    /\ snapshot_interval \in 0 .. PERFORMANCE_COUNTER_STATE_SIZE
    /\ frame_counter \in 0 .. PERFORMANCE_COUNTER_STATE_SIZE
    /\ snapshot_counter \in LogIdx
    /\ lock \in Threads \cup {NoThread}
    /\ poisoned \in BOOLEAN
    /\ \A t \in Threads : pc[t] \in {"run", "guard", "in_op", "panicked", "deadlock", "aborted"}
    /\ \A t \in Threads : Len(scoped[t]) <= 1
    /\ DOMAIN timed_blocks \subseteq 0 .. (last_timed_block_id - 1)

-----------------------------------------------------------------------------
(* Properties. *)

CurrentSlot == performance_counter_states[frame_counter]

Dead(t) == pc[t] \in {"panicked", "aborted", "deadlock"}

(* C1: between operations, 0 <= frame_counter < snapshot_interval <= 60. *)
C1_FrameCounterBelowInterval ==
    /\ 0 <= frame_counter
    /\ frame_counter < snapshot_interval
    /\ snapshot_interval <= PERFORMANCE_COUNTER_STATE_SIZE

(* C2: with an interval n >= 1 and frame_counter < n, a frame_end that is not
   the n-th of its interval writes no log entry and clears no slot, and the
   n-th advances snapshot_counter, writes the log entry there and no other,
   resets frame_counter to 0 and leaves the slots [0, n) empty. *)
C2_SnapshotEveryNthFrame ==
    [][\A t \in Threads :
          (frame_end(t) /\ snapshot_interval >= 1 /\ frame_counter < snapshot_interval) =>
              IF frame_counter + 1 < snapshot_interval
              THEN /\ performance_counter_log' = performance_counter_log
                   /\ performance_counter_states' = performance_counter_states
                   /\ snapshot_counter' = snapshot_counter
                   /\ frame_counter' = frame_counter + 1
              ELSE /\ snapshot_counter' = NextSnapshotCounter
                   /\ \A i \in LogIdx \ {NextSnapshotCounter} :
                         performance_counter_log'[i] = performance_counter_log[i]
                   /\ performance_counter_log'[NextSnapshotCounter] \in
                         SortedRecords(StatisticsValues(performance_counter_states))
                   /\ frame_counter' = 0
                   /\ \A i \in 0 .. (snapshot_interval - 1) :
                         performance_counter_states'[i] = <<>>]_vars

(* C3: the record of an identity in the current slot has as many hits as
   blocks of that identity were closed since the last frame_end, and their
   summed durations as its elapsed time. *)
C3_HitsEqualCloses ==
    \A id \in Idents :
        closes_in_frame[id].hits > 0 =>
            \E k \in 1 .. Len(CurrentSlot) :
                /\ SameIdent(CurrentSlot[k], id)
                /\ CurrentSlot[k].hits = U32(closes_in_frame[id].hits)
                /\ CurrentSlot[k].elapsed = closes_in_frame[id].elapsed

(* A thread is inside a Profile State operation: it holds a guard. *)
Inside(t) == pc[t] \in {"guard", "in_op", "deadlock"}

(* C4: at most one thread at a time is inside a Profile State operation, it is
   the holder of the lock, and Profile State changes only in a step of the
   holder: a frame_end (scan and clearing) of the thread that keeps the guard
   over it, or an operation that takes the free lock. *)
C4_MutualExclusion ==
    /\ [](\A t, u \in Threads : Inside(t) /\ Inside(u) => t = u)
    /\ [](\A t \in Threads : Inside(t) => lock = t)
    /\ [][profile' # profile =>
             \/ lock = NoThread /\ lock' # NoThread /\ pc'[lock'] = "in_op"
             \/ lock # NoThread /\ pc[lock] = "guard"
                  /\ \A u \in Threads \ {lock} : pc'[u] = pc[u] \/ pc'[u] = "aborted"]_vars

(* C4 witness: a thread is inside an operation while the other one has a
   block to close, and Profile State holds what both wrote. *)
C4_Witness ==
    \E t, u \in Threads :
        /\ t # u
        /\ pc[t] = "in_op" /\ lock = t
        /\ pc[u] = "run" /\ scoped[u] # <<>>
        /\ \E k \in 1 .. Len(CurrentSlot) : U32Nat(CurrentSlot[k].hits) >= 1

(* C5: closing a scope-bound block never leaves its thread blocked on the
   lock. *)
C5_CloseNeverBlocksForever ==
    [][\A t \in Threads : TimedBlockDrop(t) => pc'[t] # "deadlock"]_vars

(* C6: a snapshot of records whose total elapsed time is zero completes, and
   every record it writes has percent 0. *)
C6_ZeroTotalGivesZeroPercent ==
    [][\A t \in Threads :
          LET values == StatisticsValues(performance_counter_states)
          IN  (/\ frame_end(t)
               /\ TakesSnapshot
               /\ values # {}
               /\ \A v \in values : v.sum_elapsed = 0) =>
                  /\ pc'[t] = "guard"
                  /\ LET snapshot == performance_counter_log'[NextSnapshotCounter]
                     IN  /\ Len(snapshot) = Cardinality(values)
                         /\ \A k \in 1 .. Len(snapshot) :
                               ~snapshot[k].percent.nan /\ snapshot[k].percent.num = 0]_vars

(* C7: a block close or a push_timed_block by a thread that holds no guard
   never panics (the thread that holds the guard itself is the case of C5). *)
C7_InstrumentationNeverPanics ==
    [][\A t \in Threads :
          (/\ pc[t] = "run"
           /\ \/ TimedBlockDrop(t)
              \/ \E id \in 0 .. MaxBlockId : drop_timed_block_by_id(t, id)
              \/ \E ident \in Idents : push_timed_block(t, ident)) =>
              ~Dead(t)']_vars

(* C8: drop_timed_block_by_id with an id that is not in the table does not
   panic and changes nothing of Profile State. *)
C8_UnknownIdIsNoOp ==
    [][\A t \in Threads : \A id \in 0 .. MaxBlockId :
          (pc[t] = "run" /\ id \notin DOMAIN timed_blocks /\ drop_timed_block_by_id(t, id)) =>
              /\ ~Dead(t)'
              /\ profile' = profile]_vars

(* C9: no slot holds two records of the same identity. *)
C9_OneRecordPerIdentity ==
    \A i \in SlotIdx :
        \A j, k \in 1 .. Len(performance_counter_states[i]) :
            SameIdent(performance_counter_states[i][j], performance_counter_states[i][k])
                => j = k

(* C9 witness: a second close of an identity found the record of the first
   one in the slot and was merged into it. *)
C9_Witness ==
    \E i \in SlotIdx :
        /\ Len(performance_counter_states[i]) = 1
        /\ performance_counter_states[i][1].hits = U32(2)
        /\ closes_in_frame[IdentOf(performance_counter_states[i][1])].hits = 2

(* C10: a snapshot holds exactly one record per identity of the scanned slots,
   with hits, sum_hits, sum_elapsed and sum_hits_over_elapsed summed over the
   slot records of that identity alone. *)
C10_OneStatisticsRecordPerIdentity ==
    [][\A t \in Threads :
          (frame_end(t) /\ TakesSnapshot /\ pc'[t] = "guard") =>
              LET all == AllRecords(performance_counter_states, 0)
                  ids == {IdentOf(all[i]) : i \in 1 .. Len(all)}
                  of(id) == {i \in 1 .. Len(all) : SameIdent(all[i], id)}
                  sum(id, f(_)) == SumSeq([i \in 1 .. Len(all) |->
                                             IF i \in of(id) THEN f(all[i]) ELSE 0])
                  Hits(r) == U32Nat(r.hits)
                  Elapsed(r) == r.elapsed
                  Average(r) == r.elapsed \div U32Nat(r.hits)
                  snapshot == performance_counter_log'[NextSnapshotCounter]
              IN  /\ Len(snapshot) = Cardinality(ids)
                  /\ \A id \in ids :
                        \E k \in 1 .. Len(snapshot) :
                            /\ SameIdent(snapshot[k], id)
                            /\ snapshot[k].hits = Cardinality(of(id))
                            /\ snapshot[k].sum_hits = U32(sum(id, Hits))
                            /\ snapshot[k].sum_elapsed = sum(id, Elapsed)
                            /\ snapshot[k].sum_hits_over_elapsed = sum(id, Average)]_vars

(* A close gets past the lock and merges into the slot at frame_counter. *)
Merges(t) ==
    /\ ~LockFails(t)
    /\ \/ TimedBlockDrop(t)
       \/ \E id \in DOMAIN timed_blocks : drop_timed_block_by_id(t, id)

(* C11: no operation indexes out of bounds: a close uses a slot index
   (frame_counter) below 60, frame_end clears only indices below 60, and
   take_snapshot writes the log at an index below 120; snapshot_counter is
   below 120 in every state. *)
C11_IndicesInBounds ==
    /\ [](snapshot_counter \in LogIdx)
    /\ [][\A t \in Threads :
             /\ Merges(t) => frame_counter \in SlotIdx
             /\ (frame_end(t) /\ TakesSnapshot) =>
                    /\ snapshot_counter' \in LogIdx
                    /\ \A i \in 0 .. (snapshot_interval - 1) : i \in SlotIdx]_vars

(* C11 witness: a close used the last slot while snapshot_counter designated
   the last log entry. *)
C11_Witness ==
    /\ frame_counter = PERFORMANCE_COUNTER_STATE_SIZE - 1
    /\ snapshot_counter = PERFORMANCE_COUNTER_LOG_SIZE - 1
    /\ performance_counter_states[PERFORMANCE_COUNTER_STATE_SIZE - 1] # <<>>

(* C12: update_snapshot_interval(n) with n > 60 changes nothing of Profile
   State; with n <= 60 it sets snapshot_interval to n and changes nothing
   else. *)
C12_UpdateSnapshotInterval ==
    [][\A t \in Threads : \A n \in NearLimitIntervals :
          update_snapshot_interval(t, n) =>
              /\ snapshot_interval' =
                    IF n > PERFORMANCE_COUNTER_STATE_SIZE THEN snapshot_interval ELSE n
              /\ <<frame_timer, frame_elapsed, frame_counter, snapshot_counter,
                    performance_counter_states, performance_counter_log, timed_blocks,
                    last_timed_block_id>>' =
                 <<frame_timer, frame_elapsed, frame_counter, snapshot_counter,
                   performance_counter_states, performance_counter_log, timed_blocks,
                   last_timed_block_id>>]_vars

(* C12 witness: an interval was accepted in the middle of an interval of 60
   frames, with records in the slots. *)
C12_Witness ==
    /\ snapshot_interval = 1
    /\ frame_counter = PERFORMANCE_COUNTER_STATE_SIZE - 1
    /\ performance_counter_states[PERFORMANCE_COUNTER_STATE_SIZE - 2] # <<>>

(* C13: the ids returned by push_timed_block are strictly increasing, so
   pairwise distinct, whichever threads call it and whether or not the
   blocks of earlier ids were closed. *)
C13_IdsStrictlyIncreasing ==
    \A i, j \in 1 .. Len(issued_ids) : i < j => issued_ids[i] < issued_ids[j]

(* C13 witness: two ids were returned, the second one to the other thread,
   and the block of the first id is closed. *)
C13_Witness ==
    /\ Len(issued_ids) = 2
    /\ issued_ids[1] \notin DOMAIN timed_blocks
    /\ issued_ids[2] \in DOMAIN timed_blocks
    /\ timed_blocks[issued_ids[2]].thread_id # Host
    /\ \E i \in SlotIdx : \E k \in 1 .. Len(performance_counter_states[i]) :
          performance_counter_states[i][k].thread_id = Host

(* C14: snapshot_counter is in [0, 120) in every state, and every snapshot
   advances it by exactly 1 modulo 120 and writes the log entry at the
   advanced index, so that snapshot_counter designates the entry written
   last. *)
C14_SnapshotCounterAdvances ==
    /\ [](snapshot_counter \in LogIdx)
    /\ [][\A t \in Threads :
             (frame_end(t) /\ TakesSnapshot) =>
                 /\ snapshot_counter' = (snapshot_counter + 1) % PERFORMANCE_COUNTER_LOG_SIZE
                 /\ performance_counter_log'[snapshot_counter'] \in
                       SortedRecords(StatisticsValues(performance_counter_states))]_vars

(* C15: in every snapshot of the statistics log, the records are ordered by
   non-increasing percent. *)
C15_SnapshotsSortedByPercent ==
    \A i \in LogIdx :
        \A k \in 1 .. (Len(performance_counter_log[i]) - 1) :
            PercentGeq(performance_counter_log[i][k].percent,
                       performance_counter_log[i][k + 1].percent)

(* C15 witness: a snapshot of two records with different percents. *)
C15_Witness ==
    \E i \in LogIdx :
        /\ Len(performance_counter_log[i]) = 2
        /\ ~PercentGeq(performance_counter_log[i][2].percent,
                       performance_counter_log[i][1].percent)

(* The sum of the fractions of a sequence of percents, as <<num, den>>. *)
RECURSIVE SumOfPercents(_)
SumOfPercents(ps) ==
    IF ps = <<>> THEN <<0, 1>>
    ELSE LET rest == SumOfPercents(Tail(ps))
         IN  <<Head(ps).num * rest[2] + rest[1] * Head(ps).den, Head(ps).den * rest[2]>>

(* C16: in every snapshot whose total elapsed time (the sum of sum_elapsed
   over its records) is not zero, the percent of each record is
   sum_elapsed / total * 100, and the percents sum to 100. *)
C16_PercentOfTotal ==
    \A i \in LogIdx :
        LET snapshot == performance_counter_log[i]
            total == SumSeq([k \in 1 .. Len(snapshot) |-> snapshot[k].sum_elapsed])
            percents == [k \in 1 .. Len(snapshot) |-> snapshot[k].percent]
        IN  total # 0 =>
                /\ \A k \in 1 .. Len(snapshot) :
                      /\ ~percents[k].nan
                      /\ percents[k].den # 0
                      /\ percents[k].num * total = snapshot[k].sum_elapsed * 100 * percents[k].den
                /\ SumOfPercents(percents)[1] = 100 * SumOfPercents(percents)[2]

(* C16 witness: a snapshot of two records that both took time. *)
C16_Witness ==
    \E i \in LogIdx :
        /\ Len(performance_counter_log[i]) = 2
        /\ \A k \in 1 .. 2 : performance_counter_log[i][k].sum_elapsed > 0

(* C17: after a frame_end that takes a snapshot, every Frame Sample Slot is
   empty. *)
C17_SlotsEmptyAfterSnapshot ==
    [][\A t \in Threads :
          (frame_end(t) /\ TakesSnapshot) =>
              \A i \in SlotIdx : performance_counter_states'[i] = <<>>]_vars

(* C18: a snapshot replaces the log entry at the advanced snapshot_counter by
   exactly the records it computed, and leaves every other log entry as it
   was. *)
C18_SnapshotReplacesEntry ==
    [][\A t \in Threads :
          (frame_end(t) /\ TakesSnapshot) =>
              /\ performance_counter_log'[NextSnapshotCounter] \in
                    SortedRecords(StatisticsValues(performance_counter_states))
              /\ \A i \in LogIdx \ {NextSnapshotCounter} :
                    performance_counter_log'[i] = performance_counter_log[i]]_vars

(* The hits and the elapsed time recorded for an identity in a slot. *)
HitsOf(records, id) ==
    SumSeq([k \in 1 .. Len(records) |->
               IF SameIdent(records[k], id) THEN U32Nat(records[k].hits) ELSE 0])

ElapsedOf(records, id) ==
    SumSeq([k \in 1 .. Len(records) |->
               IF SameIdent(records[k], id) THEN records[k].elapsed ELSE 0])

(* C19: a drop_timed_block_by_id that finds its id changes the Frame Sample
   Slots as the drop of a scope-bound block of the same identity by the same
   thread in the same state does: one hit and the measured time are merged
   into the slot at the current frame_counter and no other slot changes; it
   removes exactly that id from the table; counters and log stay as they
   are.  Where the drop of the scope-bound block fails in
   get_profile_state, the close by id fails there as well and changes
   nothing.  push_timed_block changes no slot, counter or log entry. *)
C19_CloseByIdLikeScopedDrop ==
    [][\A t \in Threads :
          /\ \A id \in DOMAIN timed_blocks :
                (~LockFails(t) /\ drop_timed_block_by_id(t, id)) =>
                    LET ident == IdentOf(timed_blocks[id])
                        old == performance_counter_states[frame_counter]
                        new == performance_counter_states'[frame_counter]
                    IN  /\ \E timer_elapsed \in Durations :
                              /\ performance_counter_states' =
                                    drop_timed_block(TimedBlock(ident, FALSE, t), t,
                                                     timer_elapsed)
                              /\ ElapsedOf(new, ident) = ElapsedOf(old, ident) + timer_elapsed
                        /\ HitsOf(new, ident) = HitsOf(old, ident) + 1
                        /\ \A other \in Idents \ {ident} :
                              HitsOf(new, other) = HitsOf(old, other)
                        /\ \A i \in SlotIdx \ {frame_counter} :
                              performance_counter_states'[i] = performance_counter_states[i]
                        /\ DOMAIN timed_blocks' = (DOMAIN timed_blocks) \ {id}
                        /\ \A k \in DOMAIN timed_blocks' : timed_blocks'[k] = timed_blocks[k]
                        /\ <<frame_counter, snapshot_counter, performance_counter_log>>' =
                           <<frame_counter, snapshot_counter, performance_counter_log>>
          /\ \A id \in DOMAIN timed_blocks :
                (LockFails(t) /\ drop_timed_block_by_id(t, id)) =>
                    /\ Dead(t)'
                    /\ profile' = profile
          /\ \A ident \in Idents :
                push_timed_block(t, ident) =>
                    <<performance_counter_states, frame_counter, snapshot_counter,
                      performance_counter_log>>' =
                    <<performance_counter_states, frame_counter, snapshot_counter,
                      performance_counter_log>>]_vars

(* C19 witness: a block closed by id was merged into the slot of a later
   frame, into the record a scope-bound block of the same identity had left
   there. *)
C19_Witness ==
    /\ issued_ids = <<0>>
    /\ timed_blocks = <<>>
    /\ frame_counter = 1
    /\ performance_counter_states[0] = <<>>
    /\ Len(performance_counter_states[1]) = 1
    /\ performance_counter_states[1][1].hits = U32(2)

(* C20: once the command is registered, executing
   "profile::set_snapshot_interval N" with one numeric argument N <= 60
   returns Ok and sets snapshot_interval to N; with a non-numeric argument
   or an argument count other than 1 it returns an error and leaves
   snapshot_interval as it is. *)
C20_SetSnapshotIntervalCommand ==
    [][\A t \in Threads : \A command \in CommandLines :
          LET request == parse_command(command)
              key == CommandKey(Profile, SetSnapshotInterval)
              result == command_results'[Len(command_results')]
          IN  (/\ execute_command(t, command)
               /\ key \in DOMAIN commands.index
               /\ request.ok
               /\ request.command = key) =>
                  IF /\ Len(request.arguments) = 1
                     /\ request.arguments[1].type = "Number"
                  THEN (/\ request.arguments[1].number.frac = <<>>
                        /\ request.arguments[1].number.int <= PERFORMANCE_COUNTER_STATE_SIZE) =>
                           /\ Len(command_results') = Len(command_results) + 1
                           /\ result.ok
                           /\ snapshot_interval' = request.arguments[1].number.int
                  ELSE /\ Len(command_results') = Len(command_results) + 1
                       /\ ~result.ok
                       /\ snapshot_interval' = snapshot_interval]_vars

(* The command registered last under key, among those passed to
   register_command so far. *)
RegisteredUnder(key) ==
    {i \in 1 .. Len(registered_commands) :
        CommandKey(registered_commands[i].namespace, registered_commands[i].name) = key}

LastRegistered(key) == registered_commands[MaxOf(RegisteredUnder(key))]

(* C21: every call of execute_command appends its line to the history and
   returns; a line that parses returns "Command '<name>' not found" when no
   command was registered under <name>, and otherwise the result of the
   executor registered last under <name>. *)
C21_ExecuteCommand ==
    [][\A t \in Threads : \A command \in CommandLines :
          execute_command(t, command) =>
              LET request == parse_command(command)
                  result == command_results'[Len(command_results')]
              IN  /\ commands'.history = Append(commands.history, command)
                  /\ Len(command_results') = Len(command_results) + 1
                  /\ request.ok =>
                        IF RegisteredUnder(request.command) = {}
                        THEN result = Err(<<"Command '">> \o request.command
                                              \o <<"' not found">>)
                        ELSE result = Execute(LastRegistered(request.command).executor,
                                              request.arguments)]_vars

(* The hits the slots hold under the key of record r. *)
HitsUnderKey(states, r) ==
    LET records == AllRecords(states, 0)
    IN  SumSeq([k \in 1 .. Len(records) |->
                   IF StatisticsKey(records[k]) = StatisticsKey(r)
                   THEN U32Nat(records[k].hits)
                   ELSE 0])

(* The snapshot records has a record of the key of r. *)
InSnapshot(records, r) ==
    \E j \in 1 .. Len(records) : StatisticsKey(records[j]) = StatisticsKey(r)

(* A hit of identity id is held in a slot, and a snapshot is still to come. *)
Pending(id) ==
    /\ snapshots_taken < MaxSnapshots
    /\ \E i \in SlotIdx : \E k \in 1 .. Len(performance_counter_states[i]) :
          SameIdent(performance_counter_states[i][k], id)

(* A log entry has a record under the key of identity id. *)
Logged(id) ==
    \E i \in LogIdx : \E j \in 1 .. Len(performance_counter_log[i]) :
        /\ StatisticsKey(performance_counter_log[i][j]) = StatisticsKey(id)
        /\ performance_counter_log[i][j].sum_hits # U32(0)

(* C22: the frame_end that reaches the threshold writes a snapshot that
   counts every hit held in any slot; a frame_end that changes a slot has
   written a snapshot that counts the hits of every record of that slot; and
   as long as the host is there to call frame_end, every hit held in a slot
   eventually shows in a log entry. *)
C22_MergedHitsReachTheLog ==
    /\ [][\A t \in Threads : (frame_end(t) /\ TakesSnapshot) =>
             \A i \in SlotIdx : \A k \in 1 .. Len(performance_counter_states[i]) :
                 LET r == performance_counter_states[i][k]
                     records == performance_counter_log'[snapshot_counter']
                 IN  \E j \in 1 .. Len(records) :
                         /\ StatisticsKey(records[j]) = StatisticsKey(r)
                         /\ records[j].sum_hits =
                                U32(HitsUnderKey(performance_counter_states, r))]_vars
    /\ [][\A t \in Threads : frame_end(t) =>
             \A i \in SlotIdx :
                 performance_counter_states'[i] # performance_counter_states[i] =>
                     \A k \in 1 .. Len(performance_counter_states[i]) :
                         InSnapshot(performance_counter_log'[snapshot_counter'],
                                    performance_counter_states[i][k])]_vars
    /\ \A id \in Idents : Pending(id) ~> (Logged(id) \/ Dead(Host))

(* C23: every record held in a slot has hits >= 1 (its hits are not 0), so
   that take_snapshot never divides by zero. *)
C23_HitsAtLeastOne ==
    \A i \in SlotIdx : \A k \in 1 .. Len(performance_counter_states[i]) :
        performance_counter_states[i][k].hits # U32(0)

(* The number of blocks in the manual-block table. *)
TableSize(blocks) == Cardinality(DOMAIN blocks)

(* C24: every key of the manual-block table is smaller than
   last_timed_block_id, and the table holds as many blocks as
   push_timed_block returned ids less those drop_timed_block_by_id found and
   removed; a pushed block stays in the table as it is until it is closed by
   its id, and records get into the slots through closes only. *)
C24_ManualBlockTable ==
    /\ [](\A k \in DOMAIN timed_blocks : k < last_timed_block_id)
    /\ [](TableSize(timed_blocks) = Len(issued_ids) - Len(closed_ids))
    /\ [][\A k \in DOMAIN timed_blocks :
             \/ k \in DOMAIN timed_blocks' /\ timed_blocks'[k] = timed_blocks[k]
             \/ \E t \in Threads : drop_timed_block_by_id(t, k)]_vars
    /\ [][performance_counter_states' # performance_counter_states =>
             \E t \in Threads :
                 \/ TimedBlockDrop(t)
                 \/ \E id \in DOMAIN timed_blocks : drop_timed_block_by_id(t, id)
                 \/ frame_end(t)]_vars

(* C24 witness: of two blocks pushed one was closed by its id; the other one
   is still in the table after a snapshot was taken, and no record of it is
   in a slot or in the log. *)
C24_Witness ==
    /\ Len(issued_ids) = 2
    /\ Len(closed_ids) = 1
    /\ TableSize(timed_blocks) = 1
    /\ snapshots_taken = 1
    /\ pc[Host] = "guard"
    /\ \A k \in DOMAIN timed_blocks :
          /\ \A i \in SlotIdx : \A j \in 1 .. Len(performance_counter_states[i]) :
                ~SameIdent(performance_counter_states[i][j], timed_blocks[k])
          /\ \A i \in LogIdx : \A j \in 1 .. Len(performance_counter_log[i]) :
                ~SameIdent(performance_counter_log[i][j], timed_blocks[k])

====
